---- MODULE Spec2Model ----
(***************************************************************************)
(* Model of mapping_ai_app.py: a Streamlit script that is executed from    *)
(* top to bottom on every user interaction.  The widget state (the two     *)
(* file uploaders, the two sheet select boxes, the button trigger) is kept *)
(* by the framework between executions; everything else is recomputed by   *)
(* each execution ("run") of the script.                                   *)
(*                                                                         *)
(* A table is modelled by its header row (the DataFrame's column index)    *)
(* and the dtype of its cells; the cell values themselves are not used by  *)
(* any statement of the script other than the preview.                     *)
(***************************************************************************)
EXTENDS Integers, Sequences, FiniteSets, TLC

VARIABLES
    API_URL,              \* os.getenv("API_URL"), line 11
    API_KEY,              \* os.getenv("API_KEY"), line 12
    uploaded,             \* value of the two st.file_uploader widgets, lines 53-54
    rejected,             \* per slot: the uploader shows a file-type rejection
    sheet_sel,            \* value of the two st.selectbox widgets, lines 67, 87
    clicked,              \* trigger value of st.button for the pending/current run
    pc,                   \* position of the script
    source_columns,       \* line 56, 71
    destination_columns,  \* line 57, 91
    source_df,            \* line 64-69
    destination_df,       \* line 84-89
    button,               \* what st.button returned in this run, line 102
    requests,             \* the requests.post calls made in this run, line 118
    response,             \* what requests.post produced in this run
    mappings,             \* line 122
    ui,                   \* elements the run has put on the page
    log                   \* records the run has written to the log

vars == <<API_URL, API_KEY, uploaded, rejected, sheet_sel, clicked, pc,
          source_columns, destination_columns, source_df, destination_df,
          button, requests, response, mappings, ui, log>>

-----------------------------------------------------------------------------
(* Input universe *)

Slots == {"source", "destination"}

Other(slot) == IF slot = "source" THEN "destination" ELSE "source"

ColNames == {"SKU", "Name"}

\* Header rows: no column at all, or the column names in either order
\* (column names are unique within a parsed table).
Tables ==
    {<<>>} \cup {t \in [1..Cardinality(ColNames) -> ColNames] :
                    \A i, j \in 1..Len(t) : i # j => t[i] # t[j]}

SheetNames == <<"Sheet1", "Sheet2">>

\* str.lower() on the extension, line 61 / 81
Lower(ext) == IF ext = ".XLSX" THEN ".xlsx" ELSE ext

NoFile == [ext |-> "", fmt |-> "none", sheets |-> <<>>]

\* What the bytes of a file are: delimiter-separated text with one header
\* row, a workbook with one or two sheets, or neither.
TextContents == {[fmt |-> "text", sheets |-> <<t>>] : t \in Tables}

WorkbookContents ==
    {[fmt |-> "workbook", sheets |-> s] :
        s \in UNION {[1..n -> Tables] : n \in 1..Len(SheetNames)}}

Garbage == [fmt |-> "garbage", sheets |-> <<>>]

File(ext, content) == [ext |-> ext, fmt |-> content.fmt, sheets |-> content.sheets]

Files ==
    {File(".csv", c) : c \in TextContents \cup {Garbage}}
    \cup {File(".XLSX", c) : c \in WorkbookContents \cup {Garbage}}
    \cup {File(".txt", c) : c \in {Garbage, [fmt |-> "text", sheets |-> <<<<"SKU", "Name">>>>]}}

ConfigValues ==
    {[defined |-> FALSE, value |-> ""],      \* variable absent: os.getenv gives None
     [defined |-> TRUE, value |-> ""],
     [defined |-> TRUE, value |-> "https://service/map"],
     [defined |-> TRUE, value |-> "secret"]}

\* Python truthiness of an os.getenv result, line 14
Truthy(v) == v.defined /\ v.value # ""

-----------------------------------------------------------------------------
(* Remote service responses *)

OK == 200

Statuses == {200, 422, 500}

EmptyMapping == {}

\* A mappings object as a set of <<key, value>> pairs.
MappingObjects == {EmptyMapping, {<<"Title", "Name">>}}

JsonObject(val) == [isobj |-> TRUE, val |-> val]

JsonNull == [isobj |-> FALSE, val |-> {}]

MappingValues == {JsonObject(m) : m \in MappingObjects} \cup {JsonNull}

NoBodyFields ==
    [has_mappings |-> FALSE, mappings |-> JsonNull, has_detail |-> FALSE, detail |-> ""]

\* json: "object" (a JSON object), "array" (valid JSON that is no object),
\* "invalid" (not JSON, e.g. an HTML error page or an empty body).
Bodies ==
    {[json |-> "object", has_mappings |-> hm, mappings |-> m,
      has_detail |-> hd, detail |-> d] :
        hm \in BOOLEAN, m \in MappingValues, hd \in BOOLEAN, d \in {"", "bad schema"}}
    \cup {[json |-> j] @@ NoBodyFields : j \in {"array", "invalid"}}

WellFormedBody(b) ==
    /\ (~b.has_mappings => b.mappings = JsonNull)
    /\ (b.has_detail <=> b.detail # "")

NoResponse == [kind |-> "none", status |-> 0, body |-> [json |-> "invalid"] @@ NoBodyFields]

\* What requests.post can produce: an HTTP response, or an exception
\* (connection refused, timeout, ...).
Outcomes ==
    {[kind |-> "http", status |-> s, body |-> b] :
        s \in Statuses, b \in {x \in Bodies : WellFormedBody(x)}}
    \cup {[kind |-> "raised", status |-> 0, body |-> NoResponse.body]}

-----------------------------------------------------------------------------
(* Page elements and log records *)

\* One st.* call: the widget, the message template, and what is formatted
\* into it.
El(widget, text, slot, status, detail, cols, data) ==
    [widget |-> widget, text |-> text, slot |-> slot, status |-> status,
     detail |-> detail, cols |-> cols, data |-> data]

\* One logging.* call.
Rec(level, text, slot, status, detail, cols) ==
    [level |-> level, text |-> text, slot |-> slot, status |-> status,
     detail |-> detail, cols |-> cols]

-----------------------------------------------------------------------------
(* Configuration check, lines 10-17 *)

ConfigMissingEither(url, key) == ~Truthy(url) /\ ~Truthy(key)

\* if not API_URL or not API_KEY
ConfigMissing(url, key) == ~Truthy(url) \/ ~Truthy(key)

ConfigErrorEl ==
    El("error", "API_URL and API_KEY must be configured in the .env file.",
       "", 0, "", <<>>, {})

ConfigErrorRec ==
    Rec("ERROR", "API_URL and API_KEY are missing in the .env file.", "", 0, "", <<>>)

InitializedRec == Rec("INFO", "Mapping app initialized.", "", 0, "", <<>>)

-----------------------------------------------------------------------------
(* File uploaders, lines 42-57 *)

AllowAnyType(ext) == TRUE

\* st.file_uploader(..., type=["csv", "xlsx"]): the widget takes a file only
\* if its extension is one of the listed ones, compared without case.
AllowedType(ext) == Lower(ext) \in {".csv", ".xlsx"}

\* validate_uploaded_file: what it puts on the page
ValidateEls(file, slot) ==
    IF file = NoFile
    THEN {El("warning", "Please upload a valid file.", slot, 0, "", <<>>, {})}
    ELSE {}

\* validate_uploaded_file: what it logs
ValidateRecs(file, slot) ==
    IF file = NoFile
    THEN {Rec("WARNING", "file not uploaded.", slot, 0, "", <<>>)}
    ELSE {Rec("INFO", "file uploaded", slot, 0, file.ext, <<>>)}

KeepColumns(old) == old

\* source_columns = [] / destination_columns = []
InitialColumns(old) == <<>>

-----------------------------------------------------------------------------
(* Tabular loading, lines 59-97 *)

NoDf == [defined |-> FALSE, columns |-> <<>>, dtype |-> "none"]

Raised(cause) == [raised |-> cause, df |-> NoDf]

Returned(columns) ==
    [raised |-> "", df |-> [defined |-> TRUE, columns |-> columns, dtype |-> "inferred"]]

\* pd.read_csv: needs delimiter-separated text with at least one column
read_csv(file) ==
    IF file.fmt # "text" THEN Raised("ParserError")
    ELSE IF Len(file.sheets[1]) = 0 THEN Raised("EmptyDataError")
    ELSE Returned(file.sheets[1])

\* pd.ExcelFile(...).sheet_names; raises when the bytes are no workbook
ExcelFile(file) ==
    IF file.fmt # "workbook"
    THEN [raised |-> "ValueError", sheet_names |-> <<>>]
    ELSE [raised |-> "", sheet_names |-> SubSeq(SheetNames, 1, Len(file.sheets))]

\* st.selectbox(label, options, key=...): the option the widget holds
selectbox(options, sel) == options[sel]

\* pd.read_excel(file, sheet_name=...)
read_excel(file, sheet_name) ==
    LET i == CHOOSE k \in 1..Len(SheetNames) : SheetNames[k] = sheet_name
    IN  Returned(file.sheets[i])

\* df.astype(str): every cell becomes text; the column index is kept
enforce_string_types(df) == [df EXCEPT !.dtype = "str"]

\* The try body of lines 62-69 / 82-89
LoadTable(file, sel) ==
    LET read ==
            IF Lower(file.ext) = ".csv" THEN read_csv(file)
            ELSE IF ExcelFile(file).raised # "" THEN Raised(ExcelFile(file).raised)
            ELSE read_excel(file, selectbox(ExcelFile(file).sheet_names, sel))
    IN  IF read.raised # "" THEN read
        ELSE [raised |-> "", df |-> enforce_string_types(read.df)]

\* list(df.columns)
Columns(df) == df.columns

ContinueAfterError(slot, next) == next

\* st.stop() in the except block of a loading step
StopAfterError(slot, next) == IF slot = "source" THEN "stopped_source" ELSE "stopped_destination"

PreviewEls(slot, df) ==
    {El("subheader", "File Preview", slot, 0, "", <<>>, {}),
     El("dataframe", "head", slot, 0, df.dtype, df.columns, {}),
     El("write", "Columns", slot, 0, "", Columns(df), {})}

ProcessedRec(slot, df) ==
    Rec("INFO", "file processed with columns", slot, 0, "", Columns(df))

ReadErrorEl(slot, cause) == El("error", "Error reading file", slot, 0, cause, <<>>, {})

ReadErrorRec(slot, cause) == Rec("ERROR", "Error reading file", slot, 0, cause, <<>>)

-----------------------------------------------------------------------------
(* Exception handling, lines 74, 94, 141 *)

\* The exceptions the library calls of the script raise; each is a subclass
\* of Exception.
ExceptionSubclasses ==
    {"ParserError", "EmptyDataError", "ValueError", "ConnectionError",
     "JSONDecodeError", "AttributeError", "TypeError"}

CatchesTransportOnly(cause) == cause = "ConnectionError"

\* except Exception as e
Catches(cause) == cause \in ExceptionSubclasses

-----------------------------------------------------------------------------
(* Mapping request and response handling, lines 102-146 *)

ReadyEither(s, d) == s # <<>> \/ d # <<>>

\* if source_columns and destination_columns
ReadyToMap(s, d) == s # <<>> /\ d # <<>>

SwappedPayload(s, d) ==
    [source_table |-> [columns |-> d], destination_table |-> [columns |-> s]]

\* payload = {...}, lines 107-110
Payload(s, d) ==
    [source_table |-> [columns |-> s], destination_table |-> [columns |-> d]]

\* headers = {...}, lines 111-114
Headers(key) == [api_key |-> key.value, Content_Type |-> "application/json"]

Request(url, key, s, d) ==
    [url |-> url.value, json |-> Payload(s, d), headers |-> Headers(key)]

Failed(outcome) == outcome.kind = "raised" \/ outcome.status # OK

RetryOnFailure(req, outcome) == IF Failed(outcome) THEN <<req, req>> ELSE <<req>>

\* The calls of requests.post the handler makes for one press: one, line 118
Attempts(req, outcome) == <<req>>

StatusNotServerError(status) == status < 500

\* if response.status_code == 200
StatusOk(status) == status = OK

\* response.json(): raises when the body is not JSON
ParseJson(body) == IF body.json = "invalid" THEN "JSONDecodeError" ELSE ""

\* .get on the parsed body: raises when the body is JSON but not an object
GetRaises(body) == IF body.json # "object" THEN "AttributeError" ELSE ""

\* response.json().get("mappings", {})
GetMappings(body) ==
    IF body.has_mappings THEN body.mappings ELSE JsonObject(EmptyMapping)

DetailOrNothing(body) == body.detail

\* response.json().get("detail", "Unknown Error")
GetDetail(body) == IF body.has_detail THEN body.detail ELSE "Unknown Error"

NoMappings == [defined |-> FALSE, isobj |-> FALSE, val |-> {}]

Assigned(m) == [defined |-> TRUE, isobj |-> m.isobj, val |-> m.val]

SendingRec == Rec("INFO", "Sending JSON payload to API for mapping...", "", 0, "", <<>>)

ResultsSubheader == El("subheader", "Mapping Results", "", 0, "", <<>>, {})

\* st.dataframe(pd.DataFrame.from_dict(mappings, orient="index"))
ResultTable(m) == El("dataframe", "mapping_table", "", 0, "", <<>>, m)

\* st.download_button(..., data=json.dumps(mappings, indent=2),
\*                    file_name="mapping_results.json")
Download(m) ==
    El("download_button", "mapping_results.json", "", 0, "application/json", <<>>, m)

DisplayedRec ==
    Rec("INFO", "Mapping results displayed and download option enabled.", "", 0, "", <<>>)

ApiFailureEl(status, message) ==
    El("error", "Failed to generate mapping", "", status, message, <<>>, {})

ApiFailureRec(status, message) == Rec("ERROR", "API error", "", status, message, <<>>)

ApiCallErrorEl(cause) == El("error", "Error during API call", "", 0, cause, <<>>, {})

ApiCallErrorRec(cause) == Rec("ERROR", "Error during API call", "", 0, cause, <<>>)

MissingInputEl ==
    El("warning",
       "Please upload both source and destination files before generating mapping.",
       "", 0, "", <<>>, {})

MissingInputRec ==
    Rec("WARNING", "Attempt to generate mapping without both files uploaded.",
        "", 0, "", <<>>)

Step(raised, m, els, recs) ==
    [raised |-> raised, mappings |-> m, els |-> els, recs |-> recs]

\* The try body, lines 106-140, run on what requests.post produced: the
\* exception it stops at (if any), the value of `mappings`, and what it has
\* put on the page and in the log by then.
TryBody(outcome) ==
    LET body == outcome.body
        \* response.json().get(...): the exception it raises, if any
        raises == IF ParseJson(body) # "" THEN ParseJson(body) ELSE GetRaises(body)
    IN
    IF outcome.kind = "raised"
      THEN Step("ConnectionError", NoMappings, {}, {SendingRec})
    ELSE IF StatusOk(outcome.status)
      THEN IF raises # ""
             THEN Step(raises, NoMappings, {}, {SendingRec})
           ELSE LET m == GetMappings(body) IN
             IF ~m.isobj
               \* DataFrame.from_dict raises on a value that is no dict
               THEN Step("TypeError", Assigned(m), {ResultsSubheader}, {SendingRec})
               ELSE Step("", Assigned(m),
                         {ResultsSubheader, ResultTable(m.val), Download(m.val)},
                         {SendingRec, DisplayedRec})
    ELSE IF raises # ""
           THEN Step(raises, NoMappings, {}, {SendingRec})
           ELSE Step("", NoMappings,
                     {ApiFailureEl(outcome.status, GetDetail(body))},
                     {SendingRec, ApiFailureRec(outcome.status, GetDetail(body))})

-----------------------------------------------------------------------------
(* State *)

IdlePcs == {"done", "stopped_config", "stopped_source", "stopped_destination", "crashed"}

Init ==
    /\ API_URL \in {v \in ConfigValues : v.value \in {"", "https://service/map"}}
    /\ API_KEY \in {v \in ConfigValues : v.value \in {"", "secret"}}
    /\ uploaded = [s \in Slots |-> NoFile]
    /\ rejected = [s \in Slots |-> FALSE]
    /\ sheet_sel = [s \in Slots |-> 1]
    /\ clicked = FALSE
    /\ pc = "start"
    /\ source_columns = <<>>
    /\ destination_columns = <<>>
    /\ source_df = NoDf
    /\ destination_df = NoDf
    /\ button = FALSE
    /\ requests = <<>>
    /\ response = NoResponse
    /\ mappings = NoMappings
    /\ ui = {}
    /\ log = {}

-----------------------------------------------------------------------------
(* User interactions.  Each one changes the widget state and makes the     *)
(* framework execute the script again; interactions that arrive before the *)
(* execution has begun are served by the same execution.  The page of the  *)
(* previous execution is discarded; the script's column lists hold their   *)
(* old values until the script assigns them.                               *)

Interactive == pc \in IdlePcs \cup {"start"}

Rerun ==
    /\ pc' = "start"
    /\ source_df' = NoDf
    /\ destination_df' = NoDf
    /\ button' = FALSE
    /\ requests' = <<>>
    /\ response' = NoResponse
    /\ mappings' = NoMappings
    /\ ui' = {}
    /\ log' = {}
    /\ UNCHANGED <<API_URL, API_KEY, source_columns, destination_columns>>

\* The button trigger is set for one execution only.
KeepTrigger == clicked' = (pc = "start" /\ clicked)

\* A file is chosen in an uploader, lines 53-54.  A file of a type that is
\* not listed is refused by the widget, which shows the refusal; the widget
\* then holds the file it held before, or none.
Upload(slot) ==
    /\ Interactive
    /\ \E file \in Files :
          IF AllowedType(file.ext)
          THEN /\ uploaded' = [uploaded EXCEPT ![slot] = file]
               /\ rejected' = [rejected EXCEPT ![slot] = FALSE]
               /\ sheet_sel' = [sheet_sel EXCEPT ![slot] = 1]
          ELSE /\ \E kept \in {uploaded[slot], NoFile} :
                     uploaded' = [uploaded EXCEPT ![slot] = kept]
               /\ rejected' = [rejected EXCEPT ![slot] = TRUE]
               /\ sheet_sel' =
                     IF uploaded'[slot] = NoFile
                     THEN [sheet_sel EXCEPT ![slot] = 1] ELSE sheet_sel
    /\ KeepTrigger
    /\ Rerun

\* The file of an uploader is removed.
Remove(slot) ==
    /\ Interactive
    /\ uploaded[slot] # NoFile
    /\ uploaded' = [uploaded EXCEPT ![slot] = NoFile]
    /\ sheet_sel' = [sheet_sel EXCEPT ![slot] = 1]
    /\ UNCHANGED rejected
    /\ KeepTrigger
    /\ Rerun

\* Another sheet is chosen in a select box, lines 67, 87.
SelectSheet(slot) ==
    /\ Interactive
    /\ uploaded[slot] # NoFile
    /\ Lower(uploaded[slot].ext) # ".csv"
    /\ ExcelFile(uploaded[slot]).raised = ""
    /\ \E i \in 1..Len(ExcelFile(uploaded[slot]).sheet_names) :
          /\ i # sheet_sel[slot]
          /\ sheet_sel' = [sheet_sel EXCEPT ![slot] = i]
    /\ UNCHANGED <<uploaded, rejected>>
    /\ KeepTrigger
    /\ Rerun

\* "Generate Mapping" is pressed, line 102.  The button is on the page only
\* when the configuration check lets the script reach it.
Click ==
    /\ Interactive
    /\ ~ConfigMissing(API_URL, API_KEY)
    /\ clicked' = TRUE
    /\ UNCHANGED <<uploaded, rejected, sheet_sel>>
    /\ Rerun

-----------------------------------------------------------------------------
(* One execution of the script *)

Widgets == <<API_URL, API_KEY, uploaded, rejected, sheet_sel, clicked>>

\* Lines 10-57: configuration check, logging set-up, the two uploaders and
\* the initial column lists.
Startup ==
    /\ pc = "start"
    /\ IF ConfigMissing(API_URL, API_KEY)
       THEN /\ ui' = {ConfigErrorEl}
            /\ log' = {ConfigErrorRec}
            /\ pc' = "stopped_config"                         \* st.stop()
            /\ UNCHANGED <<source_columns, destination_columns>>
       ELSE /\ ui' = ValidateEls(uploaded["source"], "source")
                     \cup ValidateEls(uploaded["destination"], "destination")
            /\ log' = {InitializedRec}
                      \cup ValidateRecs(uploaded["source"], "source")
                      \cup ValidateRecs(uploaded["destination"], "destination")
            /\ source_columns' = InitialColumns(source_columns)
            /\ destination_columns' = InitialColumns(destination_columns)
            /\ pc' = "source"
    /\ UNCHANGED <<Widgets, source_df, destination_df, button, requests,
                   response, mappings>>

\* Lines 59-77
LoadSource ==
    /\ pc = "source"
    /\ LET file == uploaded["source"]
           r == LoadTable(file, sheet_sel["source"])
       IN  IF file = NoFile
             THEN /\ pc' = "destination"
                  /\ UNCHANGED <<source_df, source_columns, ui, log>>
           ELSE IF r.raised = ""
             THEN /\ source_df' = r.df
                  /\ source_columns' = Columns(r.df)
                  /\ ui' = ui \cup PreviewEls("source", r.df)
                  /\ log' = log \cup {ProcessedRec("source", r.df)}
                  /\ pc' = "destination"
           ELSE IF Catches(r.raised)
             THEN /\ ui' = ui \cup {ReadErrorEl("source", r.raised)}
                  /\ log' = log \cup {ReadErrorRec("source", r.raised)}
                  /\ pc' = StopAfterError("source", "destination")
                  /\ UNCHANGED <<source_df, source_columns>>
           ELSE /\ pc' = "crashed"
                /\ UNCHANGED <<source_df, source_columns, ui, log>>
    /\ UNCHANGED <<Widgets, destination_df, destination_columns, button,
                   requests, response, mappings>>

\* Lines 79-97
LoadDestination ==
    /\ pc = "destination"
    /\ LET file == uploaded["destination"]
           r == LoadTable(file, sheet_sel["destination"])
       IN  IF file = NoFile
             THEN /\ pc' = "button"
                  /\ UNCHANGED <<destination_df, destination_columns, ui, log>>
           ELSE IF r.raised = ""
             THEN /\ destination_df' = r.df
                  /\ destination_columns' = Columns(r.df)
                  /\ ui' = ui \cup PreviewEls("destination", r.df)
                  /\ log' = log \cup {ProcessedRec("destination", r.df)}
                  /\ pc' = "button"
           ELSE IF Catches(r.raised)
             THEN /\ ui' = ui \cup {ReadErrorEl("destination", r.raised)}
                  /\ log' = log \cup {ReadErrorRec("destination", r.raised)}
                  /\ pc' = StopAfterError("destination", "button")
                  /\ UNCHANGED <<destination_df, destination_columns>>
           ELSE /\ pc' = "crashed"
                /\ UNCHANGED <<destination_df, destination_columns, ui, log>>
    /\ UNCHANGED <<Widgets, source_df, source_columns, button,
                   requests, response, mappings>>

\* Lines 100-146: the button and, when it was pressed, its handler with the
\* remote call; what the service answers is an input.
GenerateMapping ==
    /\ pc = "button"
    /\ button' = clicked
    /\ IF ~clicked
         THEN /\ pc' = "done"
              /\ UNCHANGED <<requests, response, mappings, ui, log>>
       ELSE IF ReadyToMap(source_columns, destination_columns)
         THEN \E outcome \in Outcomes :
                LET req == Request(API_URL, API_KEY, source_columns, destination_columns)
                    t == TryBody(outcome)
                IN  /\ requests' = Attempts(req, outcome)
                    /\ response' = outcome
                    /\ mappings' = t.mappings
                    /\ IF t.raised = ""
                         THEN /\ ui' = ui \cup t.els
                              /\ log' = log \cup t.recs
                              /\ pc' = "done"
                       ELSE IF Catches(t.raised)
                         THEN /\ ui' = ui \cup t.els \cup {ApiCallErrorEl(t.raised)}
                              /\ log' = log \cup t.recs \cup {ApiCallErrorRec(t.raised)}
                              /\ pc' = "done"
                       ELSE /\ ui' = ui \cup t.els
                            /\ log' = log \cup t.recs
                            /\ pc' = "crashed"
       ELSE /\ ui' = ui \cup {MissingInputEl}
            /\ log' = log \cup {MissingInputRec}
            /\ pc' = "done"
            /\ UNCHANGED <<requests, response, mappings>>
    /\ UNCHANGED <<Widgets, source_df, destination_df, source_columns,
                   destination_columns>>

Next ==
    \/ \E slot \in Slots : Upload(slot)
    \/ \E slot \in Slots : Remove(slot)
    \/ \E slot \in Slots : SelectSheet(slot)
    \/ Click
    \/ Startup
    \/ LoadSource
    \/ LoadDestination
    \/ GenerateMapping

Spec == Init /\ [][Next]_vars

-----------------------------------------------------------------------------
(* Vocabulary of the properties, stated on the inputs rather than on the   *)
(* script's own operators.                                                 *)

\* The slot holds a file the script can read: delimiter-separated text with
\* a header under a .csv name, or a workbook under an .xlsx name.
Readable(slot) ==
    LET f == uploaded[slot] IN
    /\ f # NoFile
    /\ \/ f.ext = ".csv" /\ f.fmt = "text" /\ f.sheets[1] # <<>>
       \/ f.ext \in {".xlsx", ".XLSX"} /\ f.fmt = "workbook"

\* The slot holds a file the script cannot read.
Unreadable(slot) == uploaded[slot] # NoFile /\ ~Readable(slot)

\* The header row of the slot's file (of its selected sheet, for a workbook).
HeaderOf(slot) ==
    LET f == uploaded[slot] IN
    IF f.fmt = "text" THEN f.sheets[1] ELSE f.sheets[sheet_sel[slot]]

ColumnsOf(slot) == IF slot = "source" THEN source_columns ELSE destination_columns

DfOf(slot) == IF slot = "source" THEN source_df ELSE destination_df

\* The slot's table and column list are extracted and on the page.
Extracted(slot) ==
    /\ DfOf(slot).defined
    /\ DfOf(slot).columns = HeaderOf(slot)
    /\ ColumnsOf(slot) = HeaderOf(slot)
    /\ \E e \in ui : e.widget = "dataframe" /\ e.slot = slot /\ e.cols = HeaderOf(slot)
    /\ \E e \in ui : e.widget = "write" /\ e.slot = slot /\ e.cols = HeaderOf(slot)

ConfigValid ==
    /\ API_URL.defined /\ API_URL.value # ""
    /\ API_KEY.defined /\ API_KEY.value # ""

RunEnded == pc \in IdlePcs

MissingInputWarned ==
    /\ \E e \in ui : e.widget = "warning" /\ e.text = MissingInputEl.text
    /\ \E r \in log : r.level = "WARNING" /\ r.text = MissingInputRec.text

\* A mapping result is on the page, as a table or as a download.
TableShown == \E e \in ui : e.widget = "dataframe" /\ e.text = "mapping_table"

DownloadOffered ==
    \E e \in ui : e.widget = "download_button" /\ e.text = "mapping_results.json"

ErrorShown == \E e \in ui : e.widget = "error"

ErrorLogged == \E r \in log : r.level = "ERROR"

\* The remote call failed: no response, a status other than 200, or a body
\* from which no mappings object can be read.
CallFailed ==
    /\ requests # <<>>
    /\ \/ response.kind = "raised"
       \/ response.status # 200
       \/ response.body.json # "object"
       \/ response.body.has_mappings /\ ~response.body.mappings.isobj

-----------------------------------------------------------------------------
(* C1 *)

\* C1: a request is sent only in a run in which "Generate Mapping" was
\* pressed and both column lists are non-empty; when the handler finds
\* either list empty it sends nothing and emits the missing-input warning
\* (on the page and in the log).
C1_RequestOnlyWithBothLists ==
    /\ requests # <<>> =>
          button /\ source_columns # <<>> /\ destination_columns # <<>>
    /\ pc = "done" /\ button /\ (source_columns = <<>> \/ destination_columns = <<>>) =>
          requests = <<>> /\ response.kind = "none" /\ MissingInputWarned
    /\ MissingInputWarned =>
          button /\ (source_columns = <<>> \/ destination_columns = <<>>)

C1_Witness ==
    /\ pc = "done" /\ button
    /\ source_columns # <<>> /\ destination_columns = <<>>
    /\ Readable("destination")
    /\ requests = <<>> /\ MissingInputWarned

-----------------------------------------------------------------------------
(* C2 *)

-----------------------------------------------------------------------------
(* C3 *)

\* C3: a file whose extension is neither .csv nor .xlsx is refused for its
\* slot (it never becomes the value of an uploader), and the refusal leaves
\* the other slot alone: in a run that ends with a refusal showing in one
\* slot, and no unreadable file held there, a readable file in the other
\* slot has its table and column list extracted and on the page, whichever
\* of the two slots the refusal is in.
C3_RefusalLeavesOtherSlot ==
    \A slot \in Slots :
        /\ uploaded[slot] # NoFile => uploaded[slot].ext \in {".csv", ".xlsx", ".XLSX"}
        /\ (/\ rejected[slot]
            /\ ~Unreadable(slot)
            /\ Readable(Other(slot))
            /\ ConfigValid
            /\ RunEnded)
           => Extracted(Other(slot))

C3_Witness ==
    /\ pc = "done"
    /\ rejected["source"] /\ uploaded["source"] = NoFile
    /\ Readable("destination") /\ Extracted("destination")
    /\ destination_columns = <<"Name", "SKU">>

-----------------------------------------------------------------------------
(* C4 *)

\* C4: a mapping result (table or download) is on the page only when the
\* remote call of this run returned status 200, and then both are, showing
\* the body's mappings; when the call fails in any way the error is on the
\* page and in the log, and neither table nor download is.
C4_ResultOnlyOnSuccess ==
    /\ (TableShown \/ DownloadOffered) =>
          /\ requests # <<>> /\ response.kind = "http" /\ response.status = 200
          /\ response.body.json = "object"
          /\ LET m == IF response.body.has_mappings
                      THEN response.body.mappings.val ELSE {}
             IN  \A e \in ui :
                    e.text \in {"mapping_table", "mapping_results.json"} => e.data = m
          /\ TableShown /\ DownloadOffered
    /\ (RunEnded /\ CallFailed) =>
          ~TableShown /\ ~DownloadOffered /\ ErrorShown /\ ErrorLogged

C4_Witness ==
    /\ pc = "done" /\ requests # <<>>
    /\ response.status = 422
    /\ response.body.has_mappings /\ response.body.mappings.val # {}
    /\ ~TableShown /\ ~DownloadOffered /\ ErrorShown

-----------------------------------------------------------------------------
(* C5 *)

\* C5: a run sends at most one request; a run whose handler accepted the
\* press has sent exactly one when it ends, whatever came back; and a
\* request is added only by the handler of a pressed button, to a run that
\* has sent none, so that another request needs another press.
C5_SingleAttempt ==
    /\ [](Len(requests) <= 1)
    /\ []((pc = "done" /\ button /\ source_columns # <<>> /\ destination_columns # <<>>)
            => Len(requests) = 1)
    /\ [][Len(requests') > Len(requests) =>
            /\ pc = "button" /\ clicked
            /\ requests = <<>>
            /\ Len(requests') = 1]_vars

C5_Witness ==
    /\ pc = "done" /\ button
    /\ response.kind = "raised"
    /\ Len(requests) = 1

-----------------------------------------------------------------------------
(* C6 *)

\* C6: no run ends in an uncaught exception; a file that cannot be read
\* ends the run at its loading step with the reading error on the page and
\* in the log; a remote call that fails by exception (no response, a body
\* that is not a JSON object, mappings that are no object) ends the run with
\* the API-call error on the page and in the log.
C6_EveryFailureHandled ==
    /\ pc # "crashed"
    /\ \A slot \in Slots :
          LET stopped == IF slot = "source" THEN "stopped_source"
                         ELSE "stopped_destination"
          IN  pc = stopped =>
                /\ Unreadable(slot)
                /\ \E e \in ui : e.widget = "error" /\ e.text = "Error reading file"
                                 /\ e.slot = slot /\ e.detail # ""
                /\ \E r \in log : r.level = "ERROR" /\ r.text = "Error reading file"
                                  /\ r.slot = slot /\ r.detail # ""
    /\ (Unreadable("source") /\ ConfigValid /\ pc \notin {"start", "source"}) =>
          pc = "stopped_source"
    /\ (Unreadable("destination") /\ ~Unreadable("source") /\ ConfigValid
        /\ pc \notin {"start", "source", "destination"}) =>
          pc = "stopped_destination"
    /\ (requests # <<>> /\ (\/ response.kind = "raised"
                            \/ response.body.json # "object"
                            \/ /\ response.status = 200
                               /\ response.body.has_mappings
                               /\ ~response.body.mappings.isobj)) =>
          /\ pc = "done"
          /\ \E e \in ui : e.widget = "error" /\ e.text = "Error during API call"
                           /\ e.detail # ""
          /\ \E r \in log : r.level = "ERROR" /\ r.text = "Error during API call"
                            /\ r.detail # ""
    /\ (RunEnded /\ CallFailed) => ErrorShown /\ ErrorLogged

C6_Witness ==
    /\ pc = "done" /\ requests # <<>>
    /\ response.kind = "http" /\ response.status = 500
    /\ response.body.json = "invalid"
    /\ ApiCallErrorEl("JSONDecodeError") \in ui
    /\ ApiCallErrorRec("JSONDecodeError") \in log

-----------------------------------------------------------------------------
(* C7 *)

\* C7: every request sent has as its body exactly
\* {"source_table": {"columns": S}, "destination_table": {"columns": D}},
\* S the header row of the source file and D that of the destination file,
\* in file order, both non-empty, and carries the credential in the
\* api_key header; it goes to the configured endpoint.
C7_RequestBody ==
    \A i \in 1..Len(requests) :
        /\ HeaderOf("source") # <<>> /\ HeaderOf("destination") # <<>>
        /\ requests[i].json =
              [source_table |-> [columns |-> HeaderOf("source")],
               destination_table |-> [columns |-> HeaderOf("destination")]]
        /\ requests[i].headers.api_key = API_KEY.value
        /\ requests[i].headers.Content_Type = "application/json"
        /\ requests[i].url = API_URL.value

C7_Witness ==
    /\ pc = "done" /\ Len(requests) = 1
    /\ uploaded["source"].fmt = "text"
    /\ uploaded["destination"].fmt = "workbook" /\ sheet_sel["destination"] = 2
    /\ requests[1].json.source_table.columns = <<"SKU", "Name">>
    /\ requests[1].json.destination_table.columns = <<"Name", "SKU">>

-----------------------------------------------------------------------------
(* C8 *)

\* C8: with API_URL or API_KEY missing or empty, every run stops at the
\* configuration check: the configuration error is reported (page and log),
\* and nothing else happens - no file is loaded, the button is never
\* evaluated and no request is sent.
C8_NoStartWithoutConfig ==
    ~ConfigValid =>
        /\ pc \in {"start", "stopped_config"}
        /\ ~source_df.defined /\ ~destination_df.defined
        /\ ~button /\ ~clicked
        /\ requests = <<>> /\ response.kind = "none" /\ ~mappings.defined
        /\ pc = "stopped_config" => ui = {ConfigErrorEl} /\ log = {ConfigErrorRec}

C8_Witness ==
    /\ pc = "stopped_config"
    /\ API_URL.defined /\ API_URL.value # ""
    /\ API_KEY.defined /\ API_KEY.value = ""
    /\ Readable("source") /\ Readable("destination")
    /\ ConfigErrorEl \in ui

-----------------------------------------------------------------------------
(* C9 *)

\* C9: a run starts from empty column lists and no mapping result; from then
\* on each column list is empty or the header row of the file its slot
\* holds in this run (empty when the slot holds none), so a request carries
\* only this run's headers; and a result on the page is the mappings of the
\* response received in this run.
C9_RunsIndependent ==
    /\ pc = "source" =>
          /\ source_columns = <<>> /\ destination_columns = <<>>
          /\ ~mappings.defined /\ requests = <<>> /\ response.kind = "none"
    /\ pc \notin {"start", "stopped_config"} =>
          \A slot \in Slots :
              /\ ColumnsOf(slot) # <<>> => Readable(slot) /\ ColumnsOf(slot) = HeaderOf(slot)
              /\ uploaded[slot] = NoFile => ColumnsOf(slot) = <<>> /\ ~DfOf(slot).defined
    /\ \A i \in 1..Len(requests) :
          /\ Readable("source") /\ Readable("destination")
          /\ requests[i].json.source_table.columns = HeaderOf("source")
          /\ requests[i].json.destination_table.columns = HeaderOf("destination")
    /\ (TableShown \/ DownloadOffered \/ mappings.defined) =>
          /\ requests # <<>> /\ response.kind = "http"
          /\ mappings.val = (IF response.body.has_mappings
                             THEN response.body.mappings.val ELSE {})
          /\ \A e \in ui : e.data \in {{}, mappings.val}

C9_Witness ==
    /\ pc = "done" /\ button
    /\ uploaded["source"] = NoFile /\ source_columns = <<>>
    /\ destination_columns # <<>>
    /\ requests = <<>> /\ MissingInputWarned

-----------------------------------------------------------------------------
(* C10 *)

\* C10: a run in which the source file or the destination file cannot be
\* read stops at that loading step, once the error is on the page: the
\* button is not evaluated (no request, no missing-input warning), even when
\* it was pressed and the other slot was loaded; a request is sent only in a
\* run in which both slots hold a readable file and are loaded.
C10_LoadFailureBlocks ==
    /\ (Unreadable("source") /\ ConfigValid /\ pc \notin {"start", "source"}) =>
          pc = "stopped_source"
    /\ (Unreadable("destination") /\ ~Unreadable("source") /\ ConfigValid
        /\ pc \notin {"start", "source", "destination"}) =>
          pc = "stopped_destination"
    /\ pc \in {"stopped_source", "stopped_destination"} =>
          /\ ErrorShown
          /\ ~button /\ requests = <<>> /\ response.kind = "none"
          /\ ~MissingInputWarned /\ ~TableShown /\ ~DownloadOffered
    /\ pc = "stopped_source" => ~destination_df.defined
    /\ requests # <<>> =>
          /\ Readable("source") /\ Readable("destination")
          /\ source_df.defined /\ destination_df.defined

C10_Witness ==
    /\ pc = "stopped_destination" /\ clicked
    /\ Readable("source") /\ Extracted("source") /\ source_columns # <<>>
    /\ Unreadable("destination")
    /\ requests = <<>>

====
